---- MODULE Spec2Model ----
(***************************************************************************)
(* Model of src/streamlit_app.py: the handwashing dashboard.               *)
(*                                                                         *)
(* One render cycle is one execution of the script from top to bottom:     *)
(* cached loader, year slider, clinic multiselect, filter, pivot, metric   *)
(* cards, raw table.  The memoised loader result (st.cache_data) survives   *)
(* between cycles; everything else is recomputed.                          *)
(*                                                                         *)
(* Reading of the source.  As written, line 161 (st.write) is dedented to  *)
(* column 0 while lines 162-163 are indented and line 164 is an `else:`,   *)
(* so the file does not compile (IndentationError, line 162).  The model   *)
(* follows the block structure the statements evidently have: lines        *)
(* 95-163 are the body of `if not filtered.empty:` and 164-165 its else.   *)
(*                                                                         *)
(* Numbers.  float64 values are modelled as exact rationals plus the two   *)
(* IEEE specials the code can produce (NaN, +/-inf); formatting rounds the *)
(* exact value half-to-even.  Nullable columns carry an explicit na flag.  *)
(***************************************************************************)
EXTENDS Integers, Sequences, FiniteSets, TLC

VARIABLES fsScript, fsCwd, cache, reads, cycle, widgets,
          hand_df, err, emitted, sel, filtered, pivot, cards

vars == <<fsScript, fsCwd, cache, reads, cycle, widgets,
          hand_df, err, emitted, sel, filtered, pivot, cards>>

\* ---------------------------------------------------------------- bounds
\* Longest CSV (data rows) drawn as input.
MaxRows == 2
\* The read counter stops counting here.
MaxReads == 3

\* ------------------------------------------------------- generic helpers
Abs(x) == IF x < 0 THEN -x ELSE x

RECURSIVE Gcd(_, _)
Gcd(a, b) == IF b = 0 THEN a ELSE Gcd(b, a % b)

RECURSIVE Pow10(_)
Pow10(k) == IF k = 0 THEN 1 ELSE 10 * Pow10(k - 1)

Range(s) == {s[i] : i \in 1..Len(s)}

SetMin(S) == CHOOSE x \in S : \A y \in S : x <= y
SetMax(S) == CHOOSE x \in S : \A y \in S : x >= y

\* ------------------------------------------------------- float64 values
NaN == [k |-> "nan", n |-> 0, d |-> 1]
Inf(neg) == [k |-> "inf", n |-> IF neg THEN -1 ELSE 1, d |-> 1]
Fin(n, d) ==
    LET s == IF d < 0 THEN -1 ELSE 1
        g == Gcd(Abs(n), Abs(d))
    IN  [k |-> "fin", n |-> (s * n) \div g, d |-> (s * d) \div g]
Zero == Fin(0, 1)

isnan(x) == x.k = "nan"
FNeg(x) == [x EXCEPT !.n = -x.n]
FIsNeg(x) == x.k # "nan" /\ x.n < 0

FAdd(x, y) ==
    CASE x.k = "nan" \/ y.k = "nan" -> NaN
      [] x.k = "inf" /\ y.k = "inf" -> IF x.n = y.n THEN x ELSE NaN
      [] x.k = "inf" -> x
      [] y.k = "inf" -> y
      [] OTHER -> Fin(x.n * y.d + y.n * x.d, x.d * y.d)

FSub(x, y) == FAdd(x, FNeg(y))

FMul(x, y) ==
    CASE x.k = "nan" \/ y.k = "nan" -> NaN
      [] x.k = "inf" \/ y.k = "inf" ->
            IF x.n = 0 \/ y.n = 0 THEN NaN ELSE Inf((x.n < 0) # (y.n < 0))
      [] OTHER -> Fin(x.n * y.n, x.d * y.d)

\* True division as pandas/numpy do it on float64: x/0 is +/-inf, 0/0 is NaN.
FDiv(x, y) ==
    CASE x.k = "nan" \/ y.k = "nan" -> NaN
      [] x.k = "inf" /\ y.k = "inf" -> NaN
      [] x.k = "inf" -> Inf((x.n < 0) # (y.n < 0))
      [] y.k = "inf" -> Zero
      [] y.n = 0 -> IF x.n = 0 THEN NaN ELSE Inf(x.n < 0)
      [] OTHER -> Fin(x.n * y.d, x.d * y.n)

FLt(x, y) ==
    CASE x.k = "nan" \/ y.k = "nan" -> FALSE
      [] x.k = "inf" -> x.n < 0 /\ ~(y.k = "inf" /\ y.n < 0)
      [] y.k = "inf" -> y.n > 0
      [] OTHER -> x.n * y.d < y.n * x.d

\* ------------------------------------------------------------ formatting
\* A formatted number: sign character, body, the digits as an integer scaled
\* by 10^dec, and the suffix appended by the f-string.
Str(sign, body, digits, dec, suffix) ==
    [sign |-> sign, body |-> body, digits |-> digits, dec |-> dec, suffix |-> suffix]

NAStr == Str("", "n/a", 0, 0, "")

RoundHalfEven(n, d) ==
    LET q == n \div d
        r == n % d
    IN  IF 2 * r > d THEN q + 1
        ELSE IF 2 * r < d THEN q
        ELSE q + (q % 2)

\* f"{x:.<dec>f}<suffix>" (plus = FALSE) and f"{x:+.<dec>f}<suffix>" (plus = TRUE)
Format(x, dec, plus, suffix) ==
    LET sign == IF FIsNeg(x) THEN "-" ELSE IF plus THEN "+" ELSE ""
    IN  CASE x.k = "nan" -> Str(IF plus THEN "+" ELSE "", "nan", 0, dec, suffix)
          [] x.k = "inf" -> Str(sign, "inf", 0, dec, suffix)
          [] OTHER -> Str(sign, "num", RoundHalfEven(Abs(x.n) * Pow10(dec), x.d), dec, suffix)

\* ------------------------------------------------------------- CSV input
\* A raw CSV cell is its text, a tuple of characters.
DigitValue == [c \in {"0", "1", "2", "3", "4", "5", "6", "7", "8", "9"} |->
                 CASE c = "0" -> 0 [] c = "1" -> 1 [] c = "2" -> 2 [] c = "3" -> 3
                   [] c = "4" -> 4 [] c = "5" -> 5 [] c = "6" -> 6 [] c = "7" -> 7
                   [] c = "8" -> 8 [] c = "9" -> 9]

BadCell == <<"x">>
YearCells == {<<"1", "8", "4", "1">>, <<"1", "8", "4", "2">>}
\* (Birth, Deaths) texts laid over every year and clinic: rates 0, 1 and 2
\* per cent, a zero-birth row with deaths, and a malformed birth count.
CountCells == { <<<<"1", "0", "0">>, <<"0">>>>,
                <<<<"1", "0", "0">>, <<"1">>>>,
                <<<<"1", "0", "0">>, <<"2">>>>,
                <<<<"0">>, <<"1">>>>,
                <<BadCell, <<"1">>>> }
\* Clinic labels in the order sorted() gives them.
ClinicOrder == <<"clinic 1", "clinic 2">>
ClinicNames == Range(ClinicOrder)

RawRow(y, bd, c) == [Year |-> y, Birth |-> bd[1], Deaths |-> bd[2], Clinic |-> c]

\* The rows a CSV is drawn from: the counts above in every year and clinic,
\* rows with a malformed year, and single rows with a malformed death count,
\* with no births and no deaths, and with a rate of 1.5 per cent.
RowSet ==
    {RawRow(y, bd, c) : y \in YearCells, bd \in CountCells, c \in ClinicNames}
    \cup {RawRow(BadCell, <<<<"1", "0", "0">>, <<"1">>>>, c) : c \in ClinicNames}
    \cup {RawRow(<<"1", "8", "4", "1">>, <<<<"1", "0", "0">>, BadCell>>, "clinic 1"),
          RawRow(<<"1", "8", "4", "1">>, <<<<"0">>, <<"0">>>>, "clinic 1"),
          RawRow(<<"1", "8", "4", "2">>, <<<<"2", "0", "0">>, <<"3">>>>, "clinic 1")}

\* The CSVs of at most n data rows.
CSVs(n) == UNION {[1..k -> RowSet] : k \in 0..n}

\* A lookup location either holds a CSV or does not exist.
NoFile == [exists |-> FALSE, rows |-> <<>>]
File(rows) == [exists |-> TRUE, rows |-> rows]

\* ---------------------------------------------------------------- loader
NA == [na |-> TRUE, v |-> 0]
Num(v) == [na |-> FALSE, v |-> v]

RECURSIVE ParseDigits(_, _)
ParseDigits(cell, acc) ==
    IF cell = <<>> THEN acc
    ELSE ParseDigits(Tail(cell), 10 * acc + DigitValue[Head(cell)])

\* pd.to_numeric(column, errors='coerce'), cell by cell
to_numeric(cell) ==
    IF cell # <<>> /\ \A i \in 1..Len(cell) : cell[i] \in DOMAIN DigitValue
    THEN Num(ParseDigits(cell, 0))
    ELSE NA

AsFloat(x) == IF x.na THEN NaN ELSE Fin(x.v, 1)

\* (df['Deaths'] / df['Birth']) * 100
MortalityRate(deaths, birth) == FMul(FDiv(AsFloat(deaths), AsFloat(birth)), Fin(100, 1))

\* The DataFrame built by lines 36-46: one row per CSV row, labelled with its
\* position (the pandas index).
LoadRow(raw, i) ==
    LET year == to_numeric(raw.Year)
        birth == to_numeric(raw.Birth)
        deaths == to_numeric(raw.Deaths)
    IN  [ix |-> i, Year |-> year, Birth |-> birth, Deaths |-> deaths,
         Clinic |-> raw.Clinic, MortalityRate |-> MortalityRate(deaths, birth)]

read_and_derive(rows) == [i \in 1..Len(rows) |-> LoadRow(rows[i], i)]

ScriptPath == "script_dir/data/handwashing.csv"
CwdPath == "cwd/data/handwashing.csv"

\* Mutant: the working-directory location tried first.
get_handwashing_data_CwdFirst(script, cwd) ==
    LET data_path == IF cwd.exists THEN cwd ELSE script
    IN  IF ~data_path.exists
        THEN [ok |-> FALSE, names |-> {ScriptPath, CwdPath}, df |-> <<>>]
        ELSE [ok |-> TRUE, names |-> {}, df |-> read_and_derive(data_path.rows)]

\* Body of get_handwashing_data (lines 23-46), run on a cache miss.
get_handwashing_data(script, cwd) ==
    LET data_path == IF script.exists THEN script ELSE cwd
    IN  IF ~data_path.exists
        THEN [ok |-> FALSE, names |-> {ScriptPath, CwdPath}, df |-> <<>>]
        ELSE [ok |-> TRUE, names |-> {}, df |-> read_and_derive(data_path.rows)]

\* Mutant: no memoisation, the body runs on every call.
cached_NoMemo(memo, script, cwd) ==
    [hit |-> FALSE, res |-> get_handwashing_data(script, cwd)]

\* @st.cache_data: a stored result is returned without running the body; a
\* call that raises stores nothing.
cached(memo, script, cwd) ==
    IF memo.set
    THEN [hit |-> TRUE, res |-> [ok |-> TRUE, names |-> {}, df |-> memo.df]]
    ELSE [hit |-> FALSE, res |-> get_handwashing_data(script, cwd)]

\* ---------------------------------------------------------------- controls
YearsOf(df) == {df[i].Year.v : i \in {j \in 1..Len(df) : ~df[j].Year.na}}

\* hand_df['Year'].min() / .max() skip missing values; int(pd.NA) raises.
HasYear(df) == YearsOf(df) # {}
min_year(df) == SetMin(YearsOf(df))
max_year(df) == SetMax(YearsOf(df))

\* sorted(hand_df['Clinic'].unique())
clinics(df) == SelectSeq(ClinicOrder, LAMBDA c : \E i \in 1..Len(df) : df[i].Clinic = c)

\* ----------------------------------------------------------------- filter
\* Kleene logic of the nullable boolean mask.
And3(a, b) ==
    IF a = "F" \/ b = "F" THEN "F"
    ELSE IF a = "NA" \/ b = "NA" THEN "NA"
    ELSE "T"
Ge3(year, bound) == IF year.na THEN "NA" ELSE IF year.v >= bound THEN "T" ELSE "F"
\* Mutant: the upper bound taken as exclusive.
Le3_Exclusive(year, bound) == IF year.na THEN "NA" ELSE IF year.v < bound THEN "T" ELSE "F"
Le3(year, bound) == IF year.na THEN "NA" ELSE IF year.v <= bound THEN "T" ELSE "F"
\* Mutant: an empty selection taken to mean every clinic.
IsIn3_EmptyIsAll(clinic, selected) ==
    IF selected = <<>> \/ clinic \in Range(selected) THEN "T" ELSE "F"
IsIn3(clinic, selected) == IF clinic \in Range(selected) THEN "T" ELSE "F"

Mask(row, from_year, to_year, selected_clinics) ==
    And3(And3(IsIn3(row.Clinic, selected_clinics), Ge3(row.Year, from_year)),
         Le3(row.Year, to_year))

\* hand_df[mask]: a missing mask entry selects nothing.
Filter(df, from_year, to_year, selected_clinics) ==
    SelectSeq(df, LAMBDA row : Mask(row, from_year, to_year, selected_clinics) = "T")

\* ------------------------------------------------------------------ pivot
RECURSIVE SumSeq(_)
SumSeq(s) == IF s = <<>> THEN Zero ELSE FAdd(Head(s), SumSeq(Tail(s)))

\* Mutant: the last record of a pair wins instead of the mean.
NanLast(s) ==
    LET vals == SelectSeq(s, LAMBDA x : ~isnan(x))
    IN  IF vals = <<>> THEN NaN ELSE vals[Len(vals)]

\* aggfunc='mean' with skipna
NanMean(s) ==
    LET vals == SelectSeq(s, LAMBDA x : ~isnan(x))
    IN  IF vals = <<>> THEN NaN ELSE FDiv(SumSeq(vals), Fin(Len(vals), 1))

RECURSIVE RatesOf(_, _, _)
RatesOf(df, y, c) ==
    IF df = <<>> THEN <<>>
    ELSE LET r == Head(df)
         IN  (IF r.Year.v = y /\ r.Clinic = c THEN <<r.MortalityRate>> ELSE <<>>)
             \o RatesOf(Tail(df), y, c)

EmptyPivot == [index |-> {}, columns |-> {}, cell |-> <<>>]

\* filtered.pivot_table(index='Year', columns='Clinic', values='MortalityRate'):
\* group mean, groups whose mean is NaN dropped, then unstacked.
pivot_table(df) ==
    LET groups == {<<df[i].Year.v, df[i].Clinic>> : i \in 1..Len(df)}
        agged == [g \in groups |-> NanMean(RatesOf(df, g[1], g[2]))]
        kept == {g \in groups : ~isnan(agged[g])}
        index == {g[1] : g \in kept}
        columns == {g[2] : g \in kept}
    IN  [index |-> index, columns |-> columns,
         cell |-> [g \in index \X columns |-> IF g \in kept THEN agged[g] ELSE NaN]]

\* ---------------------------------------------------------------- metrics
\* pivot.loc[year, clinic] if year in pivot.index and clinic in pivot.columns else nan
Lookup(pv, year, clinic) ==
    IF year \in pv.index /\ clinic \in pv.columns THEN pv.cell[<<year, clinic>>] ELSE NaN

value_str(last_val) == IF isnan(last_val) THEN NAStr ELSE Format(last_val, 2, FALSE, "%")

\* Mutant: only the first value is guarded.
delta_FirstOnly(first_val, last_val) ==
    IF isnan(first_val) THEN NAStr
    ELSE LET delta_val == FSub(last_val, first_val)
         IN  IF first_val = Zero THEN Format(delta_val, 2, FALSE, "pp")
             ELSE Format(FMul(FDiv(delta_val, first_val), Fin(100, 1)), 1, TRUE, "%")

delta(first_val, last_val) ==
    IF isnan(first_val) \/ isnan(last_val) THEN NAStr
    ELSE LET delta_val == FSub(last_val, first_val)
         IN  IF first_val = Zero THEN Format(delta_val, 2, FALSE, "pp")
             ELSE Format(FMul(FDiv(delta_val, first_val), Fin(100, 1)), 1, TRUE, "%")

delta_color(first_val, last_val) ==
    IF isnan(first_val) \/ isnan(last_val) THEN "off" ELSE "normal"

\* One pass of the loop body, lines 132-159.
Metric(pv, clinic, from_year, to_year) ==
    LET first_val == Lookup(pv, from_year, clinic)
        last_val == Lookup(pv, to_year, clinic)
    IN  [label |-> clinic, value |-> value_str(last_val),
         delta |-> delta(first_val, last_val),
         delta_color |-> delta_color(first_val, last_val)]

\* Mutant: the loop runs over the clinics that have a pivot column.
Metrics_PivotColumns(pv, selected_clinics, from_year, to_year) ==
    LET shown == SelectSeq(selected_clinics, LAMBDA c : c \in pv.columns)
    IN  [i \in 1..Len(shown) |-> Metric(pv, shown[i], from_year, to_year)]

Metrics(pv, selected_clinics, from_year, to_year) ==
    [i \in 1..Len(selected_clinics) |-> Metric(pv, selected_clinics[i], from_year, to_year)]

\* ------------------------------------------------------------ user input
AllYears == {to_numeric(y).v : y \in YearCells}

\* st.multiselect returns the chosen options in the order they were chosen.
ClinicSeqs ==
    {q \in UNION {[1..n -> ClinicNames] : n \in 0..Len(ClinicOrder)} :
        \A i, j \in 1..Len(q) : i # j => q[i] # q[j]}

Selection(from_year, to_year, selected_clinics) ==
    [from_year |-> from_year, to_year |-> to_year, selected_clinics |-> selected_clinics]

Selections ==
    {Selection(f, t, q) : f \in AllYears, t \in AllYears, q \in ClinicSeqs}

NoSelection == Selection(0, 0, <<>>)

\* What the range slider and the multiselect can return for this dataset.
Offered(u, df) ==
    /\ min_year(df) <= u.from_year
    /\ u.from_year <= u.to_year
    /\ u.to_year <= max_year(df)
    /\ Range(u.selected_clinics) \subseteq Range(clinics(df))

\* A rerun follows one interaction: the script is run again as is, the slider
\* is moved, or one clinic is added to or removed from the multiselect.
RemoveAt(q, i) == [j \in 1..(Len(q) - 1) |-> IF j < i THEN q[j] ELSE q[j + 1]]
OneInteraction(old, u) ==
    \/ u.selected_clinics = old.selected_clinics
    \/ /\ u.from_year = old.from_year
       /\ u.to_year = old.to_year
       /\ \/ \E c \in ClinicNames : u.selected_clinics = Append(old.selected_clinics, c)
          \/ \E i \in 1..Len(old.selected_clinics) :
                u.selected_clinics = RemoveAt(old.selected_clinics, i)

\* value=[min_year, max_year] and default=clinics: the first run's selection.
Defaults(df) == Selection(min_year(df), max_year(df), clinics(df))

\* ------------------------------------------------------------------ state
NoCache == [set |-> FALSE, df |-> <<>>]
NoWidgets == [set |-> FALSE, value |-> NoSelection]
NoError == [type |-> "none", names |-> {}]

TypeOK ==
    /\ fsScript.exists \in BOOLEAN
    /\ fsCwd.exists \in BOOLEAN
    /\ cache.set \in BOOLEAN
    /\ reads \in 0..MaxReads
    /\ cycle \in {"none", "first", "later"}
    /\ widgets.set \in BOOLEAN
    /\ err.type \in {"none", "FileNotFoundError", "TypeError"}
    /\ Len(cards) <= Len(ClinicOrder)

\* Page elements in the order the script emits them.
PageHead == <<"title", "write">>
PageControls(s) ==
    <<"slider", "multiselect">>
    \o (IF s.selected_clinics = <<>> THEN <<"warning">> ELSE <<>>)
    \o <<"header">>
PageData(s) ==
    <<"altair_chart", "header">>
    \o [i \in 1..Len(s.selected_clinics) |-> "metric"]
    \o <<"write", "header", "dataframe">>
PageNoData == <<"info">>

\* One run of the script, lines 49-165, with the memoised loader of lines 14-46.
\* u is what the user has set the widgets to; the first run gets the defaults.
\* reads counts the executions of pd.read_csv (line 36).
RenderCycle ==
    LET call == cached(cache, fsScript, fsCwd)
        res == call.res
        df == res.df
    IN  /\ cycle' = IF cycle = "none" THEN "first" ELSE "later"
        /\ UNCHANGED <<fsScript, fsCwd>>
        /\ IF ~res.ok
           THEN \* line 32: the exception leaves the script at line 49
                /\ err' = [type |-> "FileNotFoundError", names |-> res.names]
                /\ emitted' = <<>>
                /\ hand_df' = <<>>
                /\ sel' = NoSelection
                /\ filtered' = <<>>
                /\ pivot' = EmptyPivot
                /\ cards' = <<>>
                /\ UNCHANGED <<cache, reads, widgets>>
           ELSE /\ cache' = [set |-> TRUE, df |-> df]
                /\ reads' = IF call.hit \/ reads >= MaxReads THEN reads ELSE reads + 1
                /\ hand_df' = df
                /\ IF ~HasYear(df)
                   THEN \* line 63: int() of a missing minimum
                        /\ err' = [type |-> "TypeError", names |-> {}]
                        /\ emitted' = PageHead
                        /\ sel' = NoSelection
                        /\ filtered' = <<>>
                        /\ pivot' = EmptyPivot
                        /\ cards' = <<>>
                        /\ UNCHANGED widgets
                   ELSE \E u \in Selections :
                        LET s == IF widgets.set THEN u ELSE Defaults(df)
                            f == Filter(df, s.from_year, s.to_year, s.selected_clinics)
                            pv == IF f # <<>> THEN pivot_table(f) ELSE EmptyPivot
                        IN  /\ widgets.set => Offered(u, df) /\ OneInteraction(widgets.value, u)
                            /\ ~widgets.set => u = Defaults(df)
                            /\ widgets' = [set |-> TRUE, value |-> s]
                            /\ sel' = s
                            /\ filtered' = f
                            /\ pivot' = pv
                            /\ err' = NoError
                            /\ IF f # <<>>
                               THEN /\ cards' = Metrics(pv, s.selected_clinics,
                                                        s.from_year, s.to_year)
                                    /\ emitted' = PageHead \o PageControls(s) \o PageData(s)
                               ELSE /\ cards' = <<>>
                                    /\ emitted' = PageHead \o PageControls(s) \o PageNoData

\* The environment: a lookup location is written or removed between runs.
SmallCSVs ==
    { <<>>,
      <<RawRow(<<"1", "8", "4", "1">>, <<<<"1", "0", "0">>, <<"2">>>>, "clinic 1")>>,
      <<RawRow(<<"1", "8", "4", "2">>, <<<<"1", "0", "0">>, <<"1">>>>, "clinic 2")>>,
      <<RawRow(<<"1", "8", "4", "1">>, <<<<"1", "0", "0">>, <<"2">>>>, "clinic 1"),
        RawRow(<<"1", "8", "4", "2">>, <<<<"1", "0", "0">>, <<"1">>>>, "clinic 2")>> }

WriteScriptFile == \E c \in SmallCSVs :
    /\ fsScript' = File(c)
    /\ UNCHANGED <<fsCwd, cache, reads, cycle, widgets,
                   hand_df, err, emitted, sel, filtered, pivot, cards>>

WriteCwdFile == \E c \in SmallCSVs :
    /\ fsCwd' = File(c)
    /\ UNCHANGED <<fsScript, cache, reads, cycle, widgets,
                   hand_df, err, emitted, sel, filtered, pivot, cards>>

DeleteScriptFile ==
    /\ fsScript.exists
    /\ fsScript' = NoFile
    /\ UNCHANGED <<fsCwd, cache, reads, cycle, widgets,
                   hand_df, err, emitted, sel, filtered, pivot, cards>>

DeleteCwdFile ==
    /\ fsCwd.exists
    /\ fsCwd' = NoFile
    /\ UNCHANGED <<fsScript, cache, reads, cycle, widgets,
                   hand_df, err, emitted, sel, filtered, pivot, cards>>

InitProcess ==
    /\ cache = NoCache
    /\ reads = 0
    /\ cycle = "none"
    /\ widgets = NoWidgets
    /\ hand_df = <<>>
    /\ err = NoError
    /\ emitted = <<>>
    /\ sel = NoSelection
    /\ filtered = <<>>
    /\ pivot = EmptyPivot
    /\ cards = <<>>

\* The dashboard over a CSV that is in place and left alone.
Init ==
    /\ fsScript \in {File(c) : c \in CSVs(MaxRows)}
    /\ fsCwd = NoFile
    /\ InitProcess

Next == RenderCycle

Spec == Init /\ [][Next]_vars

\* The dashboard with the lookup locations coming and going.
InitIO ==
    /\ fsScript \in {NoFile} \cup {File(c) : c \in SmallCSVs}
    /\ fsCwd \in {NoFile} \cup {File(c) : c \in SmallCSVs}
    /\ InitProcess

NextIO ==
    \/ RenderCycle
    \/ WriteScriptFile
    \/ WriteCwdFile
    \/ DeleteScriptFile
    \/ DeleteCwdFile

SpecIO == InitIO /\ [][NextIO]_vars

\* =================================================================== claims
\* A run of the script got as far as the filter.
Drawn == cycle # "none" /\ err = NoError
\* ... and took the branch of line 94 that draws the data.
DrawnData == Drawn /\ filtered # <<>>

Count(seq, x) == Cardinality({i \in 1..Len(seq) : seq[i] = x})

RowsFor(df, y, c) ==
    {i \in 1..Len(df) : ~df[i].Year.na /\ df[i].Year.v = y /\ df[i].Clinic = c}

\* The pivot cell of (y, c), NaN when the table has no such cell.
CellOf(pv, y, c) ==
    IF y \in pv.index /\ c \in pv.columns THEN pv.cell[<<y, c>>] ELSE NaN
Absent(pv, y, c) == isnan(CellOf(pv, y, c))

\* C1: the filtered set is exactly the records whose Clinic is selected and
\* whose Year lies in [from_year, to_year], a record without a Year never
\* being kept, and the kept records are in input order.
C1_FilterExact ==
    Drawn =>
        LET keep == {i \in 1..Len(hand_df) :
                        /\ hand_df[i].Clinic \in Range(sel.selected_clinics)
                        /\ ~hand_df[i].Year.na
                        /\ sel.from_year <= hand_df[i].Year.v
                        /\ hand_df[i].Year.v <= sel.to_year}
        IN  /\ {filtered[k].ix : k \in 1..Len(filtered)} = keep
            /\ Len(filtered) = Cardinality(keep)
            /\ \A k \in 1..Len(filtered) : filtered[k] = hand_df[filtered[k].ix]
            /\ \A k, l \in 1..Len(filtered) : k < l => filtered[k].ix < filtered[l].ix

\* A two-row dataset of which the filter dropped the first row and kept the second.
C1_Witness ==
    /\ Drawn
    /\ Len(hand_df) = 2
    /\ Len(filtered) = 1
    /\ filtered[1].ix = 2

\* C2: with a non-empty filtered set, a clinic whose to_year cell is absent
\* shows "n/a" for value and delta with indicator 'off'; one whose to_year
\* cell is present but from_year cell is absent shows the to_year value as a
\* percentage and delta "n/a"/'off'; no error is raised, and each card is
\* what it would be were that clinic the only one in the filtered set.
C2_MissingLookup ==
    DrawnData =>
        /\ Len(cards) = Len(sel.selected_clinics)
        /\ \A i \in 1..Len(sel.selected_clinics) :
            LET c == sel.selected_clinics[i]
                alone == SelectSeq(filtered, LAMBDA r : r.Clinic = c)
            IN  /\ Absent(pivot, sel.to_year, c) =>
                    /\ cards[i].value = NAStr
                    /\ cards[i].delta = NAStr
                    /\ cards[i].delta_color = "off"
                /\ (~Absent(pivot, sel.to_year, c) /\ Absent(pivot, sel.from_year, c)) =>
                    /\ cards[i].value = Format(CellOf(pivot, sel.to_year, c), 2, FALSE, "%")
                    /\ cards[i].delta = NAStr
                    /\ cards[i].delta_color = "off"
                /\ cards[i] = Metric(pivot_table(alone), c, sel.from_year, sel.to_year)

\* Two cards: the first clinic has no to_year value, the second renders in full.
C2_Witness ==
    /\ DrawnData
    /\ Len(cards) = 2
    /\ Absent(pivot, sel.to_year, sel.selected_clinics[1])
    /\ cards[1].value = NAStr
    /\ cards[2].delta_color = "normal"

\* C3: when both lookups are present the delta is (last - first) with suffix
\* "pp" exactly when first = 0, otherwise the signed relative change with
\* suffix "%"; it is negative exactly when last < first; the indicator is
\* 'normal'.
C3_DeltaSign ==
    DrawnData =>
        \A i \in 1..Len(cards) :
            LET c == sel.selected_clinics[i]
                first == CellOf(pivot, sel.from_year, c)
                last == CellOf(pivot, sel.to_year, c)
            IN  (~isnan(first) /\ ~isnan(last)) =>
                    /\ cards[i].delta_color = "normal"
                    /\ (cards[i].delta.suffix = "pp") <=> (first = Zero)
                    /\ first = Zero =>
                          cards[i].delta = Format(FSub(last, first), 2, FALSE, "pp")
                    /\ first # Zero =>
                          /\ cards[i].delta.suffix = "%"
                          /\ cards[i].delta.sign \in {"+", "-"}
                          /\ cards[i].delta =
                               Format(FMul(FDiv(FSub(last, first), first), Fin(100, 1)),
                                      1, TRUE, "%")
                    /\ (cards[i].delta.sign = "-") <=> FLt(last, first)

\* C4 as stated: every (Year, Clinic) pair with a record in the filtered set
\* has a pivot cell that holds that record's MortalityRate.
C4_CellIsRecord ==
    DrawnData =>
        \A k \in 1..Len(filtered) :
            CellOf(pivot, filtered[k].Year.v, filtered[k].Clinic) = filtered[k].MortalityRate

RECURSIVE SumRates(_, _)
SumRates(df, S) ==
    IF S = {} THEN Zero
    ELSE LET i == CHOOSE j \in S : TRUE
         IN  FAdd(df[i].MortalityRate, SumRates(df, S \ {i}))

\* C4 amended: the cell of a pair with exactly one record holds that record's
\* MortalityRate; the cell of a pair with several records holds the mean of
\* their non-missing rates; a pair with no record (or none with a rate) is
\* absent/NaN, never zero.
C4_CellIsMean ==
    DrawnData =>
        /\ pivot.index \subseteq AllYears
        /\ pivot.columns \subseteq ClinicNames
        /\ \A y \in AllYears, c \in ClinicNames :
            LET recs == RowsFor(filtered, y, c)
                rated == {i \in recs : ~isnan(filtered[i].MortalityRate)}
                cell == CellOf(pivot, y, c)
            IN  /\ Cardinality(recs) = 1 =>
                      \A i \in recs : cell = filtered[i].MortalityRate
                /\ rated = {} <=> isnan(cell)
                /\ rated # {} =>
                      FMul(cell, Fin(Cardinality(rated), 1)) = SumRates(filtered, rated)

\* Two records of one (Year, Clinic) pair with different rates, averaged.
C4_Witness ==
    /\ DrawnData
    /\ Len(filtered) = 2
    /\ filtered[1].Year = filtered[2].Year
    /\ filtered[1].Clinic = filtered[2].Clinic
    /\ filtered[1].MortalityRate = Fin(1, 1)
    /\ filtered[2].MortalityRate = Fin(2, 1)
    /\ CellOf(pivot, filtered[1].Year.v, filtered[1].Clinic) = Fin(3, 2)

\* C5: every loaded record has MortalityRate = Deaths / Births * 100 when
\* Births > 0 and the missing value when Births = 0, whatever Deaths is.
C5_RateDefined ==
    \A i \in 1..Len(hand_df) :
        LET r == hand_df[i]
        IN  ~r.Birth.na =>
              /\ (r.Birth.v > 0 /\ ~r.Deaths.na) =>
                    r.MortalityRate = Fin(100 * r.Deaths.v, r.Birth.v)
              /\ r.Birth.v = 0 => isnan(r.MortalityRate)

FreshPipeline ==
    Drawn =>
        /\ cache.set /\ hand_df = cache.df
        /\ filtered = Filter(hand_df, sel.from_year, sel.to_year, sel.selected_clinics)
        /\ pivot = (IF filtered # <<>> THEN pivot_table(filtered) ELSE EmptyPivot)
        /\ cards = (IF filtered # <<>>
                    THEN Metrics(pivot, sel.selected_clinics, sel.from_year, sel.to_year)
                    ELSE <<>>)

\* C7 as stated: the CSV is read at most once, on the first cycle; the
\* Dataset never changes afterwards; every cycle's results are those of a
\* fresh pipeline run on the Dataset and the current Selection.
C7_ReadOnFirstCycle ==
    ([]FreshPipeline) /\
    [][ /\ reads' <= 1
        /\ reads' # reads => cycle = "none"
        /\ cache.set => cache' = cache ]_vars

\* C7 amended: the CSV is read at most once, on the first cycle that finds a
\* file at a lookup location (every earlier cycle having failed with the
\* not-found error); the Dataset never changes afterwards, whatever happens
\* to the files; every cycle's results are those of a fresh pipeline run on
\* the Dataset and the current Selection.
C7_ReadOnce ==
    ([]FreshPipeline) /\
    [][ /\ reads' <= 1
        /\ reads' # reads =>
              /\ ~cache.set
              /\ fsScript.exists \/ fsCwd.exists
              /\ cycle # "none" => err.type = "FileNotFoundError"
        /\ (~cache'.set /\ cycle' # "none") => err'.type = "FileNotFoundError"
        /\ cache.set => cache' = cache ]_vars

\* A later cycle still shows the Dataset read once, although the file that
\* would be read now has other content.
C7_Witness ==
    /\ cycle = "later"
    /\ Drawn
    /\ reads = 1
    /\ fsScript.exists
    /\ hand_df # read_and_derive(fsScript.rows)

\* C8: on a cache miss the loader reads the script-directory file if it
\* exists, else the working-directory file if it exists; it fails with the
\* not-found error naming both paths exactly when neither exists, and then
\* nothing of the page is produced.
C8_LookupOrder ==
    [][ RenderCycle =>
          /\ (~cache.set /\ fsScript.exists) =>
                /\ Len(hand_df') = Len(fsScript.rows)
                /\ \A i \in 1..Len(hand_df') :
                      /\ hand_df'[i].Clinic = fsScript.rows[i].Clinic
                      /\ hand_df'[i].Year = to_numeric(fsScript.rows[i].Year)
                      /\ hand_df'[i].Deaths = to_numeric(fsScript.rows[i].Deaths)
          /\ (~cache.set /\ ~fsScript.exists /\ fsCwd.exists) =>
                /\ Len(hand_df') = Len(fsCwd.rows)
                /\ \A i \in 1..Len(hand_df') :
                      /\ hand_df'[i].Clinic = fsCwd.rows[i].Clinic
                      /\ hand_df'[i].Year = to_numeric(fsCwd.rows[i].Year)
                      /\ hand_df'[i].Deaths = to_numeric(fsCwd.rows[i].Deaths)
          /\ (err'.type = "FileNotFoundError")
                <=> (~cache.set /\ ~fsScript.exists /\ ~fsCwd.exists)
          /\ err'.type = "FileNotFoundError" =>
                /\ err'.names = {ScriptPath, CwdPath}
                /\ emitted' = <<>>
                /\ cards' = <<>>
                /\ ~cache'.set ]_vars

\* A run that found neither file and produced nothing.
C8_Witness ==
    /\ cycle # "none"
    /\ err.type = "FileNotFoundError"
    /\ err.names = {ScriptPath, CwdPath}
    /\ ~fsScript.exists /\ ~fsCwd.exists
    /\ emitted = <<>>

\* C9: whatever Year / Births / Deaths values are malformed, the load keeps
\* every row with the malformed values missing, and the render cycle that
\* follows completes without an error.
C9_MalformedTolerated ==
    (/\ cycle # "none"
     /\ \E i \in 1..Len(fsScript.rows) :
           BadCell \in {fsScript.rows[i].Year, fsScript.rows[i].Birth,
                        fsScript.rows[i].Deaths}) =>
        /\ Len(hand_df) = Len(fsScript.rows)
        /\ \A i \in 1..Len(hand_df) :
              /\ fsScript.rows[i].Year = BadCell => hand_df[i].Year.na
              /\ fsScript.rows[i].Birth = BadCell => hand_df[i].Birth.na
              /\ fsScript.rows[i].Deaths = BadCell => hand_df[i].Deaths.na
        /\ err = NoError

\* C10: with a non-empty filtered set there is exactly one card per selected
\* clinic, in selection order, a clinic without any record in the range
\* showing "n/a" twice; the indicator is 'off' iff the delta is "n/a", and a
\* value of "n/a" implies a delta of "n/a".
C10_OneCardEach ==
    DrawnData =>
        /\ Len(cards) = Len(sel.selected_clinics)
        /\ Count(emitted, "metric") = Len(sel.selected_clinics)
        /\ \A i \in 1..Len(cards) :
              /\ cards[i].label = sel.selected_clinics[i]
              /\ (\A k \in 1..Len(filtered) : filtered[k].Clinic # cards[i].label) =>
                    (cards[i].value = NAStr /\ cards[i].delta = NAStr)
              /\ (cards[i].delta_color = "off") <=> (cards[i].delta = NAStr)
              /\ cards[i].delta_color \in {"off", "normal"}
              /\ cards[i].value = NAStr => cards[i].delta = NAStr

\* Two clinics selected, the first without a record in the range.
C10_Witness ==
    /\ DrawnData
    /\ Len(cards) = 2
    /\ \A k \in 1..Len(filtered) : filtered[k].Clinic # sel.selected_clinics[1]
    /\ cards[1].value = NAStr
    /\ cards[2].value # NAStr

====
